---- MODULE Spec2Model ----
(***************************************************************************)
(* MiniCoin API (src/main.py): a users store (users.json), an in-memory    *)
(* chain of blocks (bc.chain) and its persisted copy (blockchain.json),    *)
(* driven by the /join, /wallet, /buy, /send and /chain handlers.          *)
(*                                                                         *)
(* Strings are TLA+ strings.  sha256 is modelled as an injective wrapper   *)
(* around the string it is given; time.time() is the clock `now`, which    *)
(* the environment advances with Tick.  One handler reads one clock value. *)
(***************************************************************************)
EXTENDS Integers, Sequences, FiniteSets, TLC

\* ------------------------------------------------------------ bounds ----
MaxTime == 1            \* the clock runs over 0..MaxTime
MaxTx   == 3            \* at most MaxTx transactions are recorded in the chain

\* ------------------------------------------------- program constants ----
MILESTONE_SIZE == 1000  \* math.floor(total / 1000)
PREFIX_LEN     == 6     \* req.to[:6]
ADDRESS_LEN    == 16    \* hexdigest()[:16]

\* ------------------------------------------------------------ inputs ----
Usernames   == {"alice"}                  \* usernames of the requests
RawAddrs    == {"deadbeef1", "deadbeef2"}  \* recipient strings that name no user
Amounts     == {-500, 400, 2000}           \* BuyRequest.amount, SendRequest.amount: int
Threads     == {1, 2}                      \* worker threads serving requests
ConcAmounts == {400}                       \* amounts of the concurrent requests

VARIABLES
    usersFile,   \* users.json: the JSON document, a set of entries
    chain,       \* bc.chain: sequence of Block objects
    chainFile,   \* blockchain.json: [ok: parseable JSON, blocks: the dicts]
    now,         \* the value time.time() returns
    lastOp,      \* the last request served and its response
    minted,      \* history: sum of the amounts of all Buy operations applied
    pc,          \* per thread: position in a handler run step by step
    treq,        \* per thread: the request being served
    tloc,        \* per thread: the handler's local `users` dict
    edited,      \* history: blockchain.json was edited behind the program
    joined       \* history: the address the first observed Join of a name returned

vars == <<usersFile, chain, chainFile, now, lastOp, minted, pc, treq, tloc, edited,
          joined>>

\* ------------------------------------------------------------ helpers ----
RECURSIVE SumOver(_, _)
SumOver(f, S) ==
    IF S = {} THEN 0
    ELSE LET k == CHOOSE k \in S : TRUE IN f[k] + SumOver(f, S \ {k})

Min(a, b) == IF a < b THEN a ELSE b

\* hashlib.sha256(s.encode()).hexdigest()
Sha256(s) == "sha256(" \o s \o ")"

\* ------------------------------------------------------------- Block ----
compute_hash(index, prev_hash, timestamp, data) ==
    Sha256(ToString(index) \o prev_hash \o ToString(timestamp) \o ToString(data))

Block(index, prev_hash, timestamp, data) ==
    [index |-> index, prev_hash |-> prev_hash, timestamp |-> timestamp,
     data |-> data, hash |-> compute_hash(index, prev_hash, timestamp, data)]

to_dict(b) ==
    [index |-> b.index, prev_hash |-> b.prev_hash, timestamp |-> b.timestamp,
     data |-> b.data, hash |-> b.hash]

\* -------------------------------------------------------- Blockchain ----
\* json.dump([b.to_dict() for b in self.chain], f)
save_chain(c) == [ok |-> TRUE, blocks |-> [i \in 1..Len(c) |-> to_dict(c[i])]]

create_genesis_block(t) == <<Block(0, "0", t, <<>>)>>

\* the new block numbered from 1
add_block_from_one(c, data, t) == Append(c, Block(Len(c) + 1, c[Len(c)].hash, t, data))

\* Blockchain.add_block without its save_chain
add_block(c, data, t) == Append(c, Block(Len(c), c[Len(c)].hash, t, data))

\* the chain load_chain leaves in self.chain; the file exists in every state
load_chain(file, t) ==
    IF file.ok
    THEN [i \in 1..Len(file.blocks) |->
            Block(file.blocks[i].index, file.blocks[i].prev_hash,
                  file.blocks[i].timestamp, file.blocks[i].data)]
    ELSE create_genesis_block(t)

\* chain.json after load_chain: untouched when parsed, rewritten by
\* create_genesis_block after os.remove otherwise
load_chain_file(file, t) ==
    IF file.ok THEN file ELSE save_chain(create_genesis_block(t))

\* ------------------------------------------------------ user storage ----
\* json.dump(users, f): one entry per key of the dict
save_users(users) ==
    {[name |-> n, address |-> users[n].address, coins |-> users[n].coins] :
        n \in DOMAIN users}

\* json.load(f), or {} when the file does not exist
load_users(doc) ==
    [n \in {e.name : e \in doc} |->
        LET e == CHOOSE e \in doc : e.name = n
        IN  [address |-> e.address, coins |-> e.coins]]

\* users[name] = rec
Put(users, name, rec) ==
    [k \in DOMAIN users \cup {name} |-> IF k = name THEN rec ELSE users[k]]

\* hashlib.sha256(f"{username}{time.time()}".encode()).hexdigest()[:16]
NewAddress(username, t) ==
    Sha256(username \o ToString(t)) \o "[:" \o ToString(ADDRESS_LEN) \o "]"

\* the users file get_or_create_user leaves behind
get_or_create_user(doc, username, t) ==
    LET users == load_users(doc)
    IN  IF username \notin DOMAIN users
        THEN save_users(Put(users, username,
                            [address |-> NewAddress(username, t), coins |-> 0]))
        ELSE doc

\* None, which is no username
NoName == "None"

\* the first name in the dict whose address matches; the addresses of the
\* store are pairwise different in every reachable state, so at most one does
resolve_user_by_address(doc, address) ==
    LET users == load_users(doc)
        hits  == {n \in DOMAIN users : users[n].address = address}
    IN  IF hits = {} THEN NoName ELSE CHOOSE n \in hits : TRUE

TotalCoins(users) == SumOver([n \in DOMAIN users |-> users[n].coins], DOMAIN users)

\* the comparison with its operands exchanged
InsufficientBalanceSwapped(sender, amount) == amount < sender.coins

\* if sender["coins"] < req.amount
InsufficientBalance(sender, amount) == sender.coins < amount

\* ---------------------------------------------------- milestone policy ----
ExpectedBlocks(users) == TotalCoins(users) \div MILESTONE_SIZE

\* the loop written as a single `if`: at most one block per call
SealOneBlock(c, expected_blocks, t) ==
    IF Len(c) - 1 < expected_blocks THEN add_block(c, <<>>, t) ELSE c

\* while len(self.chain) - 1 < expected_blocks: self.add_block([])
RECURSIVE SealBlocks(_, _, _)
SealBlocks(c, expected_blocks, t) ==
    IF Len(c) - 1 < expected_blocks
    THEN SealBlocks(add_block(c, <<>>, t), expected_blocks, t)
    ELSE c

auto_block_if_needed(c, doc, t) == SealBlocks(c, ExpectedBlocks(load_users(doc)), t)

\* the transaction appended to the genesis block
AppendTxToFirst(c, tx) == [c EXCEPT ![1].data = Append(@, tx)]

\* bc.chain[-1].data.append(tx)
AppendTx(c, tx) == [c EXCEPT ![Len(c)].data = Append(@, tx)]

RECURSIVE TxCountUpTo(_, _)
TxCountUpTo(c, i) == IF i = 0 THEN 0 ELSE Len(c[i].data) + TxCountUpTo(c, i - 1)
TxCount(c) == TxCountUpTo(c, Len(c))

\* ------------------------------------------------------------- state ----
NoUser == [address |-> "", coins |-> 0]
Resp(kind, text, user) == [kind |-> kind, text |-> text, user |-> user, blocks |-> <<>>]
NoResp == Resp("none", "", NoUser)
Op(op, name, resp) == [op |-> op, name |-> name, resp |-> resp]
Req(op, name, to, amount, resp) ==
    [op |-> op, name |-> name, to |-> to, amount |-> amount, resp |-> resp]

\* bc = Blockchain() with no file on disk: the genesis block is created and saved
Init ==
    /\ usersFile = {}
    /\ chain = create_genesis_block(0)
    /\ chainFile = save_chain(create_genesis_block(0))
    /\ now = 0
    /\ lastOp = Op("start", "", NoResp)
    /\ minted = 0
    /\ pc = [t \in Threads |-> "idle"]
    /\ treq = [t \in Threads |-> Req("none", "", "", 0, NoResp)]
    /\ tloc = [t \in Threads |-> <<>>]
    /\ edited = FALSE
    /\ joined = <<>>

ThreadsIdle == UNCHANGED <<pc, treq, tloc, edited, joined>>

Tick ==
    /\ now < MaxTime
    /\ now' = now + 1
    /\ UNCHANGED <<usersFile, chain, chainFile, lastOp, minted>>
    /\ ThreadsIdle

\* ------------------------------------------------- handlers, one at a time ----
\* POST /join: what the handler does to the program's state
JoinStep(username) ==
    LET doc == get_or_create_user(usersFile, username, now)
    IN  /\ usersFile' = doc
        /\ lastOp' = Op("join", username,
                        Resp("message", "User joined", load_users(doc)[username]))
        /\ UNCHANGED <<chain, chainFile, now, minted>>

\* POST /join
join_user(username) == JoinStep(username) /\ ThreadsIdle

\* POST /join, with the address of the first answer per username kept
JoinObserved(username) ==
    /\ JoinStep(username)
    /\ joined' = IF username \in DOMAIN joined THEN joined
                 ELSE Put(joined, username, lastOp'.resp.user.address)
    /\ UNCHANGED <<pc, treq, tloc, edited>>

\* GET /wallet/{username}
get_wallet(username) ==
    LET users == load_users(usersFile)
    IN  /\ lastOp' = Op("wallet", username,
                        IF username \in DOMAIN users
                        THEN Resp("user", "", users[username])
                        ELSE Resp("error", "User not found", NoUser))
        /\ UNCHANGED <<usersFile, chain, chainFile, now, minted>>
        /\ ThreadsIdle

\* buy_coins up to bc.chain[-1].data.append(tx): the users file after
\* get_or_create_user, the local dict, the chain and the response
BuyApply(doc, c, username, amount, t) ==
    LET doc0  == get_or_create_user(doc, username, t)
        users == [load_users(doc0) EXCEPT ![username].coins = @ + amount]
        tx    == [user |-> username, type |-> "buy", amount |-> amount, time |-> t]
    IN  [doc |-> doc0, users |-> users, chain |-> AppendTx(c, tx),
         resp |-> Resp("message", ToString(amount) \o " coins bought", users[username])]

\* POST /buy
buy_coins(username, amount) ==
    LET out  == BuyApply(usersFile, chain, username, amount, now)
        doc1 == save_users(out.users)
        c2   == auto_block_if_needed(out.chain, doc1, now)
    IN  /\ TxCount(chain) < MaxTx
        /\ usersFile' = doc1
        /\ chain' = c2
        /\ chainFile' = save_chain(c2)
        /\ minted' = minted + amount
        /\ lastOp' = Op("buy", username, out.resp)
        /\ UNCHANGED now
        /\ ThreadsIdle

\* the debit written to users.json on its own, before the credit is applied
SendApplyDebitSaved(users, doc, c, from_user, to, amount, t) ==
    LET doc0   == get_or_create_user(doc, from_user, t)
        sender == load_users(doc0)[from_user]
        found  == IF to \in DOMAIN users THEN to ELSE resolve_user_by_address(doc0, to)
        receiver_name ==
            IF found = NoName
            THEN "user_" \o SubSeq(to, 1, Min(PREFIX_LEN, Len(to)))
            ELSE found
        users1 == IF found = NoName
                  THEN Put(users, receiver_name, [address |-> to, coins |-> 0])
                  ELSE users
        tx     == [user |-> from_user, type |-> "send", to |-> receiver_name,
                   amount |-> amount, time |-> t]
        users2 == [users1 EXCEPT ![from_user].coins = @ - amount]
        users3 == [users2 EXCEPT ![receiver_name].coins = @ + amount]
    IN  IF InsufficientBalance(sender, amount)
        THEN [doc |-> doc0, users |-> users, chain |-> c, recorded |-> FALSE,
              resp |-> Resp("error", "Insufficient balance", NoUser)]
        ELSE IF from_user \notin DOMAIN users1 \/ receiver_name \notin DOMAIN users1
        THEN [doc |-> doc0, users |-> users1, chain |-> c, recorded |-> FALSE,
              resp |-> Resp("exception", "KeyError", NoUser)]
        ELSE [doc |-> save_users(users2), users |-> users3, chain |-> AppendTx(c, tx),
              recorded |-> TRUE,
              resp |-> Resp("message",
                            ToString(amount) \o " coins sent to " \o receiver_name,
                            NoUser)]

\* send_coins from get_or_create_user up to bc.chain[-1].data.append(tx), with
\* `users` the dict load_users returned at its first line and doc the users
\* file now: the users file after get_or_create_user, the local dict, the
\* chain, whether the transaction was recorded, and the response so far.
\* `if not receiver_name` is taken for None only: no username is empty.
SendApply(users, doc, c, from_user, to, amount, t) ==
    LET doc0   == get_or_create_user(doc, from_user, t)
        sender == load_users(doc0)[from_user]
        found  == IF to \in DOMAIN users THEN to ELSE resolve_user_by_address(doc0, to)
        receiver_name ==
            IF found = NoName
            THEN "user_" \o SubSeq(to, 1, Min(PREFIX_LEN, Len(to)))
            ELSE found
        users1 == IF found = NoName
                  THEN Put(users, receiver_name, [address |-> to, coins |-> 0])
                  ELSE users
        tx     == [user |-> from_user, type |-> "send", to |-> receiver_name,
                   amount |-> amount, time |-> t]
        users2 == [users1 EXCEPT ![from_user].coins = @ - amount]
        users3 == [users2 EXCEPT ![receiver_name].coins = @ + amount]
    IN  IF InsufficientBalance(sender, amount)
        THEN [doc |-> doc0, users |-> users, chain |-> c, recorded |-> FALSE,
              resp |-> Resp("error", "Insufficient balance", NoUser)]
        ELSE IF from_user \notin DOMAIN users1 \/ receiver_name \notin DOMAIN users1
        THEN [doc |-> doc0, users |-> users1, chain |-> c, recorded |-> FALSE,
              resp |-> Resp("exception", "KeyError", NoUser)]
        ELSE [doc |-> doc0, users |-> users3, chain |-> AppendTx(c, tx),
              recorded |-> TRUE,
              resp |-> Resp("message",
                            ToString(amount) \o " coins sent to " \o receiver_name,
                            NoUser)]

\* POST /send
send_coins(from_user, to, amount) ==
    LET out  == SendApply(load_users(usersFile), usersFile, chain,
                          from_user, to, amount, now)
        doc1 == IF out.recorded THEN save_users(out.users) ELSE out.doc
        c2   == IF out.recorded THEN auto_block_if_needed(out.chain, doc1, now)
                ELSE chain
    IN  /\ out.recorded => TxCount(chain) < MaxTx
        /\ usersFile' = doc1
        /\ chain' = c2
        /\ chainFile' = IF out.recorded THEN save_chain(c2) ELSE chainFile
        /\ lastOp' = Op("send", from_user, out.resp)
        /\ UNCHANGED <<now, minted>>
        /\ ThreadsIdle

\* GET /chain
view_blockchain ==
    /\ lastOp' = Op("chain", "",
                    [Resp("chain", "", NoUser) EXCEPT
                        !.blocks = [i \in 1..Len(chain) |-> to_dict(chain[i])]])
    /\ UNCHANGED <<usersFile, chain, chainFile, now, minted>>
    /\ ThreadsIdle

\* the process is started again: bc = Blockchain() runs load_chain
Restart ==
    /\ chain' = load_chain(chainFile, now)
    /\ chainFile' = load_chain_file(chainFile, now)
    /\ lastOp' = Op("restart", "", NoResp)
    /\ UNCHANGED <<usersFile, now, minted>>
    /\ ThreadsIdle

\* what a caller can name as recipient: a username, a raw address, or the
\* name or address of an account in the store
Identifiers ==
    Usernames \cup RawAddrs \cup {e.name : e \in usersFile}
              \cup {e.address : e \in usersFile}

\* the requests served one at a time by a running process
Next ==
    \/ Tick
    \/ \E u \in Usernames : join_user(u)
    \/ \E u \in Usernames, a \in Amounts : buy_coins(u, a)
    \/ \E f \in Usernames, to \in Identifiers, a \in Amounts : send_coins(f, to, a)

Spec == Init /\ [][Next]_vars

\* the same, with reads and with restarts of the process
NextRestart ==
    \/ Next
    \/ \E u \in Usernames : get_wallet(u)
    \/ view_blockchain
    \/ Restart

SpecRestart == Init /\ [][NextRestart]_vars

\* the same requests, with senders and joiners that carry a synthesized name
OtherNames == {"user_deadbe"}

NextOpen ==
    \/ \E u \in Usernames \cup OtherNames : JoinObserved(u)
    \/ \E u \in Usernames, a \in Amounts : buy_coins(u, a)
    \/ \E f \in Usernames \cup OtherNames, to \in Identifiers, a \in Amounts :
          send_coins(f, to, a)

SpecOpen == Init /\ [][NextOpen]_vars

\* ------------------------------------------------ a store write that fails ----
\* open(..., "w") raises OSError: the file stays as it was and the exception
\* leaves the handler, every later line of which is skipped.
WriteFailed == Resp("exception", "OSError", NoUser)

\* recipients of the Sends issued while writes can fail
FailRecipients == {"alice", "deadbeef1"}

\* bc.auto_block_if_needed(); bc.save_chain() with the first save_chain call
\* raising: inside add_block, after self.chain.append(new_block), when a block
\* is due, at the handler's own bc.save_chain() otherwise
SealThenFail(c, doc, t) ==
    IF Len(c) - 1 < ExpectedBlocks(load_users(doc)) THEN add_block(c, <<>>, t) ELSE c

\* POST /buy, save_users(users) raises
BuyFailSaveUsers(username, amount) ==
    LET out == BuyApply(usersFile, chain, username, amount, now)
    IN  /\ TxCount(chain) < MaxTx
        /\ usersFile' = out.doc
        /\ chain' = out.chain
        /\ lastOp' = Op("buy", username, WriteFailed)
        /\ UNCHANGED <<chainFile, now, minted>>
        /\ ThreadsIdle

\* POST /buy, the first save_chain() raises
BuyFailSaveChain(username, amount) ==
    LET out  == BuyApply(usersFile, chain, username, amount, now)
        doc1 == save_users(out.users)
    IN  /\ TxCount(chain) < MaxTx
        /\ usersFile' = doc1
        /\ chain' = SealThenFail(out.chain, doc1, now)
        /\ minted' = minted + amount
        /\ lastOp' = Op("buy", username, WriteFailed)
        /\ UNCHANGED <<chainFile, now>>
        /\ ThreadsIdle

\* POST /send, save_users(users) raises
SendFailSaveUsers(from_user, to, amount) ==
    LET out == SendApply(load_users(usersFile), usersFile, chain,
                         from_user, to, amount, now)
    IN  /\ out.recorded
        /\ TxCount(chain) < MaxTx
        /\ usersFile' = out.doc
        /\ chain' = out.chain
        /\ lastOp' = Op("send", from_user, WriteFailed)
        /\ UNCHANGED <<chainFile, now, minted>>
        /\ ThreadsIdle

\* POST /send, the first save_chain() raises
SendFailSaveChain(from_user, to, amount) ==
    LET out  == SendApply(load_users(usersFile), usersFile, chain,
                          from_user, to, amount, now)
        doc1 == save_users(out.users)
    IN  /\ out.recorded
        /\ TxCount(chain) < MaxTx
        /\ usersFile' = doc1
        /\ chain' = SealThenFail(out.chain, doc1, now)
        /\ lastOp' = Op("send", from_user, WriteFailed)
        /\ UNCHANGED <<chainFile, now, minted>>
        /\ ThreadsIdle

NextFail ==
    \/ \E u \in Usernames, a \in Amounts : buy_coins(u, a)
    \/ \E f \in Usernames, to \in FailRecipients, a \in Amounts : send_coins(f, to, a)
    \/ \E u \in Usernames, a \in Amounts : BuyFailSaveUsers(u, a)
    \/ \E u \in Usernames, a \in Amounts : BuyFailSaveChain(u, a)
    \/ \E f \in Usernames, to \in FailRecipients, a \in Amounts :
          SendFailSaveUsers(f, to, a)
    \/ \E f \in Usernames, to \in FailRecipients, a \in Amounts :
          SendFailSaveChain(f, to, a)

SpecFail == Init /\ [][NextFail]_vars

\* ------------------------------------------- blockchain.json edited on disk ----
\* the file is replaced by text that json.load rejects
TamperGarbage ==
    /\ ~edited
    /\ chainFile' = [ok |-> FALSE, blocks |-> <<>>]
    /\ edited' = TRUE
    /\ UNCHANGED <<usersFile, chain, now, lastOp, minted, pc, treq, tloc, joined>>

\* the transactions of block i are erased from the file
TamperData(i) ==
    /\ ~edited
    /\ i \in 1..Len(chainFile.blocks)
    /\ chainFile.blocks[i].data # <<>>
    /\ chainFile' = [chainFile EXCEPT !.blocks[i].data = <<>>]
    /\ edited' = TRUE
    /\ UNCHANGED <<usersFile, chain, now, lastOp, minted, pc, treq, tloc, joined>>

NextTamper ==
    \/ \E u \in Usernames, a \in Amounts : buy_coins(u, a)
    \/ view_blockchain
    \/ Restart
    \/ TamperGarbage
    \/ \E i \in 1..(MaxTx + 1) : TamperData(i)

SpecTamper == Init /\ [][NextTamper]_vars

\* ------------------------------------- handlers run by concurrent threads ----
\* The handlers are sync functions, which the server runs on worker threads
\* with no lock around users.json, blockchain.json or bc.chain.  A handler
\* is cut where it reads or writes users.json after its first statements;
\* each piece between two cuts is run as one step.
InFlight == {t \in Threads : pc[t] \in {"send_check"}}

\* POST /send, line 182: users = load_users()
SendLoad(t, from_user, to, amount) ==
    /\ pc[t] = "idle"
    /\ TxCount(chain) + Cardinality(InFlight) < MaxTx
    /\ pc' = [pc EXCEPT ![t] = "send_check"]
    /\ treq' = [treq EXCEPT ![t] = Req("send", from_user, to, amount, NoResp)]
    /\ tloc' = [tloc EXCEPT ![t] = load_users(usersFile)]
    /\ UNCHANGED <<usersFile, chain, chainFile, now, lastOp, minted, edited, joined>>

\* POST /send, lines 183-197: the check, the receiver, the local debit and
\* credit, the transaction appended to the tail block
SendCheckApply(t) ==
    LET r   == treq[t]
        out == SendApply(tloc[t], usersFile, chain, r.name, r.to, r.amount, now)
    IN  /\ pc[t] = "send_check"
        /\ usersFile' = out.doc
        /\ chain' = out.chain
        /\ tloc' = [tloc EXCEPT ![t] = out.users]
        /\ treq' = [treq EXCEPT ![t].resp = out.resp]
        /\ pc' = [pc EXCEPT ![t] = IF out.recorded THEN "save_users" ELSE "idle"]
        /\ UNCHANGED <<chainFile, now, lastOp, minted, edited, joined>>

\* POST /buy, lines 169-173: get_or_create_user, load_users, the local
\* credit, the transaction appended to the tail block
BuyLoadApply(t, username, amount) ==
    LET out == BuyApply(usersFile, chain, username, amount, now)
    IN  /\ pc[t] = "idle"
        /\ TxCount(chain) + Cardinality(InFlight) < MaxTx
        /\ usersFile' = out.doc
        /\ chain' = out.chain
        /\ tloc' = [tloc EXCEPT ![t] = out.users]
        /\ treq' = [treq EXCEPT ![t] = Req("buy", username, "", amount, out.resp)]
        /\ pc' = [pc EXCEPT ![t] = "save_users"]
        /\ minted' = minted + amount
        /\ UNCHANGED <<chainFile, now, lastOp, edited, joined>>

\* lines 174 and 198: save_users(users)
SaveUsersStep(t) ==
    /\ pc[t] = "save_users"
    /\ usersFile' = save_users(tloc[t])
    /\ pc' = [pc EXCEPT ![t] = "auto_block"]
    /\ UNCHANGED <<chain, chainFile, now, lastOp, minted, treq, tloc, edited, joined>>

\* lines 175-176 and 199-200: bc.auto_block_if_needed(), bc.save_chain(),
\* and the response is returned
SealAndSaveStep(t) ==
    LET c2 == auto_block_if_needed(chain, usersFile, now)
    IN  /\ pc[t] = "auto_block"
        /\ chain' = c2
        /\ chainFile' = save_chain(c2)
        /\ pc' = [pc EXCEPT ![t] = "idle"]
        /\ lastOp' = Op(treq[t].op, treq[t].name, treq[t].resp)
        /\ UNCHANGED <<usersFile, now, minted, treq, tloc, edited, joined>>

NextConc ==
    \/ \E t \in Threads, f \in Usernames, to \in RawAddrs, a \in ConcAmounts :
          SendLoad(t, f, to, a)
    \/ \E t \in Threads : SendCheckApply(t)
    \/ \E t \in Threads, u \in Usernames, a \in ConcAmounts : BuyLoadApply(t, u, a)
    \/ \E t \in Threads : SaveUsersStep(t)
    \/ \E t \in Threads : SealAndSaveStep(t)

SpecConc == Init /\ [][NextConc]_vars

\* ------------------------------------------------------------ claims ----
Users == load_users(usersFile)

\* C1: in every reachable state every account's stored balance is >= 0.
BalancesNonNegative == \A e \in usersFile : e.coins >= 0

\* every transaction recorded so far has a positive amount
AllAmountsPositive ==
    \A i \in 1..Len(chain) : \A j \in 1..Len(chain[i].data) :
        chain[i].data[j].amount > 0

\* C2: after any sequence of Buys and Sends (of positive amounts) the sum
\* of all balances equals the sum of the amounts of all Buy operations
\* applied; no Send changes the sum.
SupplyConserved == AllAmountsPositive => TotalCoins(Users) = minted

\* C3: a Send from an existing sender with amount > sender.balance answers
\* "Insufficient balance" and changes neither the users store (no balance, no
\* new receiver account) nor the chain, in memory or on disk.
InsufficientFundsRejected ==
    [][\A f \in Usernames, to \in Identifiers, a \in Amounts :
          ( /\ \E e \in usersFile : e.name = f /\ a > e.coins
            /\ lastOp'.op = "send"
            /\ send_coins(f, to, a) )
          => ( /\ lastOp'.resp = Resp("error", "Insufficient balance", NoUser)
               /\ usersFile' = usersFile
               /\ chain' = chain
               /\ chainFile' = chainFile )]_vars

\* C3 witness: a sender who holds coins has just been refused a larger Send.
InsufficientFundsSeen ==
    /\ lastOp.op = "send"
    /\ lastOp.resp.text = "Insufficient balance"
    /\ \E e \in usersFile : e.name = lastOp.name /\ e.coins > 0 /\ e.coins < 2000

\* C5: every block's stored hash equals the hash recomputed over its current
\* index, timestamp, transaction list and previous hash.
HashOf(b) == compute_hash(b.index, b.prev_hash, b.timestamp, b.data)
HashMatchesContents == \A i \in 1..Len(chain) : chain[i].hash = HashOf(chain[i])

\* C6: for every block i > 0, chain[i].prev_hash = chain[i-1].hash, in every
\* reachable state, also after the chain was saved and loaded again.
Linked(c) == \A i \in 2..Len(c) : c[i].prev_hash = c[i - 1].hash
ChainLinked == Linked(chain)

\* C7: saving the chain and the users and loading them again yields the
\* in-memory state, field for field, every block's hash included.
RoundTrip ==
    /\ load_chain(save_chain(chain), now) = chain
    /\ load_users(save_users(Users)) = Users

\* C8: after every completed Buy or Send (of positive amounts) the number
\* of non-genesis blocks equals floor(totalSupply / 1000).
OneBlockPerMilestone ==
    (lastOp.op \in {"buy", "send"} /\ AllAmountsPositive)
        => Len(chain) - 1 = TotalCoins(Users) \div MILESTONE_SIZE

\* C9: the milestone policy run a second time, with no balance change in
\* between, appends nothing; and for any supply it only ever appends blocks
\* to the chain it is given.
IsPrefix(c, d) == Len(c) <= Len(d) /\ SubSeq(d, 1, Len(c)) = c
MilestoneIdempotent ==
    /\ lastOp.op \in {"buy", "send"}
          => \A t \in now..MaxTime : auto_block_if_needed(chain, usersFile, t) = chain
    /\ \A e \in (0 - 2)..(Len(chain) + 1), t \in now..MaxTime :
          LET c1 == SealBlocks(chain, e, now)
          IN  /\ SealBlocks(c1, e, t) = c1
              /\ IsPrefix(chain, c1)

\* C9 witness: a Buy has just made the policy seal two blocks at once.
MilestoneSealed == lastOp.op = "buy" /\ Len(chain) >= 3

\* the amounts of the recorded transactions of one kind that name u in field k
RECURSIVE SumData(_, _, _, _)
SumData(data, type, k, u) ==
    IF data = <<>> THEN 0
    ELSE (IF Head(data).type = type /\ Head(data)[k] = u THEN Head(data).amount ELSE 0)
         + SumData(Tail(data), type, k, u)
RECURSIVE SumChain(_, _, _, _)
SumChain(c, type, k, u) ==
    IF c = <<>> THEN 0
    ELSE SumData(Head(c).data, type, k, u) + SumChain(Tail(c), type, k, u)

\* C4: two concurrent Sends of the same sender never both pass the
\* sufficient-funds check on a balance that covers only one of them: the
\* total of the Sends accepted from an account never exceeds what the account
\* was given by Buys and Sends.
NoDoubleSpend ==
    \A u \in Usernames :
        SumChain(chain, "send", "user", u)
            <= SumChain(chain, "buy", "user", u) + SumChain(chain, "send", "to", u)

\* C10: whenever the persisted chain fails the integrity invariant (a stored
\* hash that does not match the block's contents, a prev_hash that does not
\* match the predecessor's hash, or a file that does not parse), load_chain
\* does not load it: the chain in memory afterwards is a fresh genesis block.
FileIntegrity(file) ==
    /\ file.ok
    /\ \A i \in 1..Len(file.blocks) : file.blocks[i].hash = HashOf(file.blocks[i])
    /\ Linked(file.blocks)
CorruptChainRejected ==
    [][(Restart /\ ~FileIntegrity(chainFile))
          => chain' = create_genesis_block(now)]_vars

\* C11: a Buy or a Send whose amount is <= 0 is answered with an error and
\* changes neither the users store nor the chain, in memory or on disk.
InvalidAmountRejected ==
    [][\A u \in Usernames, to \in Identifiers, a \in Amounts :
          (a <= 0 /\ (buy_coins(u, a) \/ send_coins(u, to, a)))
          => ( /\ lastOp'.resp.kind = "error"
               /\ usersFile' = usersFile
               /\ chain' = chain
               /\ chainFile' = chainFile )]_vars

\* C12: a Send whose from_user is no existing account is answered
\* "User not found" for every amount and changes neither the users store (the
\* sender is not created) nor the chain.
UnknownSenderRejected ==
    [][\A f \in Usernames, to \in Identifiers, a \in Amounts :
          ( /\ \A e \in usersFile : e.name # f
            /\ lastOp'.op = "send"
            /\ send_coins(f, to, a) )
          => ( /\ lastOp'.resp.kind = "error"
               /\ lastOp'.resp.text = "User not found"
               /\ usersFile' = usersFile
               /\ chain' = chain
               /\ chainFile' = chainFile )]_vars

\* C13: while every recorded amount is positive, a Send of amount a,
\* 0 < a <= sender.balance, to an identifier that matches no existing
\* username and no existing address leaves an account
\* whose address is that identifier and whose balance is a, and the sender's
\* balance lower by exactly a.
UnknownRecipientCredited ==
    [][\A f \in Usernames \cup OtherNames, to \in Identifiers, a \in Amounts :
          ( /\ AllAmountsPositive
            /\ \E e \in usersFile : e.name = f /\ 0 < a /\ a <= e.coins
            /\ \A e \in usersFile : e.name # to /\ e.address # to
            /\ lastOp'.op = "send"
            /\ send_coins(f, to, a) )
          => ( /\ \E n \in usersFile' : n.address = to /\ n.coins = a
               /\ \A e \in usersFile : e.name = f =>
                     \E n \in usersFile' : n.name = f /\ n.coins = e.coins - a )]_vars

\* what a recorded transaction adds to the balance of the account named n
Delta(tx, n) ==
    IF tx.type = "buy"
    THEN (IF tx.user = n THEN tx.amount ELSE 0)
    ELSE (IF tx.to = n THEN tx.amount ELSE 0) - (IF tx.user = n THEN tx.amount ELSE 0)

\* the transaction a step recorded on the old tail block
RecordedTx == chain'[Len(chain)].data[Len(chain'[Len(chain)].data)]

\* C14: every account of the users store is still there after any Join, Buy
\* or Send (all recorded amounts positive), under the same username and with the same address, and its
\* balance has changed by exactly what the transaction recorded by that
\* operation (a Buy to it, a Send from or to it) says, or not at all.
AccountsStable ==
    [][\A e \in usersFile :
          AllAmountsPositive' =>
          \E n \in usersFile' :
              /\ n.name = e.name
              /\ n.address = e.address
              /\ n.coins = e.coins + (IF TxCount(chain') = TxCount(chain) + 1
                                      THEN Delta(RecordedTx, e.name) ELSE 0)]_vars

\* the balance the transactions data[1..j] give the account named n
RECURSIVE DataDelta(_, _, _)
DataDelta(data, n, j) ==
    IF j = 0 THEN 0 ELSE Delta(data[j], n) + DataDelta(data, n, j - 1)

\* the balance the transactions of blocks[1..i] give the account named n
RECURSIVE BlocksDelta(_, _, _)
BlocksDelta(blocks, n, i) ==
    IF i = 0 THEN 0
    ELSE DataDelta(blocks[i].data, n, Len(blocks[i].data)) + BlocksDelta(blocks, n, i - 1)

\* users.json and blockchain.json agree: every balance is what the
\* transactions on file say
StoresAgree ==
    \A e \in usersFile :
        e.coins = BlocksDelta(chainFile.blocks, e.name, Len(chainFile.blocks))

\* C15: after a Buy or a Send that ended in a failed store write the in-memory
\* chain is the chain last written to blockchain.json, and users.json and
\* blockchain.json agree.
WriteFailureAborts ==
    lastOp.resp = WriteFailed => (save_chain(chain) = chainFile /\ StoresAgree)

\* the accounts of users.json are untouched; accounts with no coins may be new
OnlyEmptyAccountsAdded ==
    /\ \A e \in usersFile : e \in usersFile'
    /\ \A e \in usersFile' : e \in usersFile \/ e.coins = 0

\* the dict thread t composed from the dict it loaded carries the debit of
\* the sender and the credit of the receiver of the transaction it recorded
DebitAndCreditComposed(t) ==
    LET tx == RecordedTx
        u  == tloc[t]
        v  == tloc'[t]
    IN  /\ tx.user = treq[t].name /\ tx.amount = treq[t].amount
        /\ IF tx.to = tx.user
           THEN v[tx.user].coins \in {u[tx.user].coins, 0}
           ELSE /\ v[tx.user].coins = u[tx.user].coins - tx.amount
                /\ v[tx.to].coins - tx.amount
                     \in {0} \cup {u[n].coins : n \in DOMAIN u \cap {tx.to}}

\* C16: a Send touches the balances of users.json in one save_users call
\* only: loading, checking and sealing leave every stored account as it is
\* (the sender may be added with no coins), the debit and the credit are both
\* put into the local dict, and save_users writes that dict whole.
SendWrittenAsOneUnit ==
    [][\A t \in Threads :
          (pc[t] # pc'[t] /\ treq'[t].op = "send")
          => CASE pc[t] = "send_check" ->
                    /\ OnlyEmptyAccountsAdded
                    /\ pc'[t] = "save_users" => DebitAndCreditComposed(t)
               [] pc[t] = "save_users" -> usersFile' = save_users(tloc[t])
               [] OTHER -> usersFile' = usersFile]_vars

\* a Send has written its dict: the sender is debited and the receiver credited
SendWritten ==
    \E t \in Threads :
        /\ treq[t].op = "send" /\ pc[t] = "auto_block"
        /\ usersFile = save_users(tloc[t])
        /\ \E e \in usersFile : e.name = treq[t].name /\ e.coins = 0
        /\ \E e \in usersFile : e.address = treq[t].to /\ e.coins = treq[t].amount

\* C17: a Join of a username that was joined before answers with the address
\* the first Join returned and with the account's current balance, and changes
\* neither the users store nor the chain.
JoinIdempotent ==
    [][\A u \in Usernames \cup OtherNames :
          ( /\ u \in DOMAIN joined
            /\ AllAmountsPositive
            /\ lastOp'.op = "join" /\ lastOp'.name = u
            /\ JoinObserved(u) )
          => ( /\ lastOp'.resp.user.address = joined[u]
               /\ \E e \in usersFile : e.name = u /\ e.coins = lastOp'.resp.user.coins
               /\ usersFile' = usersFile
               /\ chain' = chain
               /\ chainFile' = chainFile )]_vars

\* every recorded transaction is a Buy
OnlyBuysRecorded ==
    \A i \in 1..Len(chain) : \A j \in 1..Len(chain[i].data) :
        chain[i].data[j].type = "buy"

\* C18: once concurrent Buys have all completed, the balances of users.json
\* add up to the sum of the amounts bought: no Buy is lost.
NoLostUpdate ==
    ( /\ \A t \in Threads : pc[t] = "idle"
      /\ OnlyBuysRecorded )
    => TotalCoins(Users) = minted

\* C19: the chain is never empty, block i carries index i counted from 0, and
\* add_block on the current chain appends one block whose index is the
\* chain's length and whose prev_hash is the stored hash of the tail.
ChainContiguous ==
    /\ Len(chain) >= 1
    /\ \A i \in 1..Len(chain) : chain[i].index = i - 1
    /\ LET c2 == add_block(chain, <<>>, now)
       IN  /\ Len(c2) = Len(chain) + 1
           /\ SubSeq(c2, 1, Len(chain)) = chain
           /\ c2[Len(c2)].index = Len(chain)
           /\ c2[Len(c2)].prev_hash = chain[Len(chain)].hash

\* add_block has run: the chain has a sealed block after the genesis block
BlockAdded == Len(chain) >= 2 /\ chain[2].prev_hash = chain[1].hash

\* the old tail block got exactly one more transaction, tx
OneTxOnOldTail(tx) ==
    chain'[Len(chain)] = [chain[Len(chain)] EXCEPT !.data = Append(@, tx)]

\* C20: under Join, Buy and Send, a successful Buy or Send appends exactly one
\* transaction, its own, to the block that was the tail before the milestone
\* policy ran; every block added by the step has an empty transaction list;
\* a block that had a successor is left exactly as it was, and the old tail
\* changes by that one transaction at most.
TxOnTailOnly ==
    [][/\ Len(chain') >= Len(chain)
       /\ \A i \in 1..(Len(chain) - 1) : chain'[i] = chain[i]
       /\ \A i \in (Len(chain) + 1)..Len(chain') : chain'[i].data = <<>>
       /\ \/ chain'[Len(chain)] = chain[Len(chain)]
          \/ TxCount(chain') = TxCount(chain) + 1 /\ OneTxOnOldTail(RecordedTx)
       /\ \A u \in Usernames, a \in Amounts :
             (lastOp'.op = "buy" /\ buy_coins(u, a))
             => OneTxOnOldTail([user |-> u, type |-> "buy", amount |-> a, time |-> now])
       /\ \A f \in Usernames, to \in Identifiers, a \in Amounts :
             (lastOp'.op = "send" /\ lastOp'.resp.kind = "message" /\ send_coins(f, to, a))
             => /\ TxCount(chain') = TxCount(chain) + 1
                /\ OneTxOnOldTail(RecordedTx)
                /\ RecordedTx.user = f /\ RecordedTx.type = "send"
                /\ RecordedTx.amount = a]_vars

\* a transaction was recorded on a tail block the milestone policy had sealed
TailGrewAfterSeal ==
    /\ Len(chain) >= 2
    /\ Len(chain[1].data) >= 1
    /\ Len(chain[Len(chain)].data) >= 1
====
